---- MODULE Spec2Model ----
(***************************************************************************)
(* A model of theforeman.py, the Foreman dynamic inventory script for      *)
(* Ansible: the per-run object cache of ForemanInventory, the three        *)
(* inventory operations built on it, and the entry point CLIMain.          *)
(***************************************************************************)
EXTENDS Integers, Sequences, FiniteSets, TLC

(***************************************************************************)
(* Python values.  Every value the script handles is a tagged record, so   *)
(* that None, strings, numbers, dicts and lists can all be told apart and  *)
(* compared, as they can in Python.                                        *)
(***************************************************************************)
None == [kind |-> "None"]
Str(s) == [kind |-> "str", s |-> s]
Num(n) == [kind |-> "int", n |-> n]
Dict(f) == [kind |-> "dict", d |-> f]
List(q) == [kind |-> "list", q |-> q]
True == [kind |-> "bool", b |-> TRUE]
EmptyDict == Dict(<<>>)

IsDict(x) == x.kind = "dict"
IsStr(x) == x.kind = "str"

\* The truth value of v in a condition.
Truthy(v) ==
  CASE v.kind = "None" -> FALSE
    [] v.kind = "str" -> v.s # ""
    [] v.kind = "int" -> v.n # 0
    [] v.kind = "bool" -> v.b
    [] v.kind = "dict" -> v.d # <<>>
    [] OTHER -> v.q # <<>>

\* dict.get(k): the value stored under k, None when k is not a key.
Get(x, k) == IF Str(k) \in DOMAIN x.d THEN x.d[Str(k)] ELSE None

\* d[k] = v
Put(x, k, v) == Dict((k :> v) @@ x.d)

\* "{0}".format(v)
Format(v) ==
  CASE v.kind = "str" -> v.s
    [] v.kind = "int" -> ToString(v.n)
    [] OTHER -> "None"

\* str.lower() on the names the model uses.
Lower(s) ==
  CASE s = "PRODUCTION" -> "production"
    [] s = "Dev" -> "dev"
    [] OTHER -> s

\* The result of a call: the instance state it leaves, whether it raised,
\* and the value it returned (None when it raised).
Return(s, v) == [s |-> s, err |-> FALSE, val |-> v]
Raise(s) == [s |-> s, err |-> TRUE, val |-> None]

(***************************************************************************)
(* Bounds of the model.                                                    *)
(***************************************************************************)
MaxOps == 2
MaxHosts == 2
MaxPerPage == 2

(***************************************************************************)
(* The object types of the cache and the fields of a host.                 *)
(***************************************************************************)
CacheKeys ==
  {"operatingsystem", "hostgroup", "environment", "model",
   "compute_resource", "domain", "subnet", "architecture", "host"}
PlainFields == <<"id", "ip", "name", "status">>
NameFields ==
  <<"model", "compute_resource", "domain", "subnet", "architecture",
    "hostgroup">>
DateFields == <<"created", "updated">>
Required == <<"base_url", "username", "password">>

VARIABLES
  db,         \* what the Foreman API answers: the client's responses
  cache,      \* self._cache: object type -> (id -> raw response)
  fetches,    \* history: how often show_<type>s(id) was called in this run
  calls,      \* history: the client calls of the last operation, in order
  infoCalls,  \* history: the get_host_info calls of the last operation
  hosts,      \* the host records get_inventory accumulated (its local hosts)
  inv,        \* the groups get_inventory returned to get_all (its local groups)
  op,         \* the last operation called and its argument
  ret,        \* what it returned, or that it raised
  nops,       \* number of operations called on the instance
  pc,         \* position of the entry point
  config,     \* the configuration file read_settings read
  settings,   \* what read_settings returned
  args,       \* self.args
  failure,    \* the uncaught error that ended the entry point
  stdout      \* the documents printed

vars ==
  <<db, cache, fetches, calls, infoCalls, hosts, inv, op, ret, nops, pc,
    config, settings, args, failure, stdout>>
libVars == <<db, cache, fetches, calls, infoCalls, hosts, inv, op, ret, nops>>
cliVars == <<pc, config, settings, args, failure, stdout>>

(***************************************************************************)
(* The client.  show_<type>s(id) answers with the stored response of the   *)
(* object, or with the API's not-found response; index_hosts(page=n)       *)
(* answers with the n-th page of host records, an empty list past the end. *)
(***************************************************************************)
ShowMethod(obj_type) == "show_" \o obj_type \o "s"

ClientShow(method_name, obj_id) ==
  IF <<method_name, obj_id>> \in DOMAIN db.objects
    THEN db.objects[<<method_name, obj_id>>]
    ELSE db.notFound

ClientIndexHosts(page) ==
  IF page \in DOMAIN db.pages THEN db.pages[page] ELSE <<>>

\* The instance state an operation starts from, with empty per-call histories.
Self ==
  [cache |-> cache, fetches |-> fetches, calls |-> <<>>, infoCalls |-> <<>>]

Fetched(s, method_name, obj_id) ==
  LET key == <<method_name, obj_id>>
      n == IF key \in DOMAIN s.fetches THEN s.fetches[key] ELSE 0
  IN [s EXCEPT !.fetches = (key :> (n + 1)) @@ @,
               !.calls = Append(@, key)]

(***************************************************************************)
(* ForemanInventory                                                        *)
(***************************************************************************)
_empty_cache == [i \in CacheKeys |-> <<>>]

\* self._cache.get(obj_type).get(obj_id, None)
CacheGet(s, obj_type, obj_id) ==
  IF obj_id \in DOMAIN s.cache[obj_type] THEN s.cache[obj_type][obj_id] ELSE None

\* self._cache[obj_type][obj_id] = obj
CachePut(s, obj_type, obj_id, obj) ==
  [s EXCEPT !.cache[obj_type] = (obj_id :> obj) @@ @]

\* return obj.get(obj_type)
Unwrap(s, obj_type, obj) ==
  IF IsDict(obj) THEN Return(s, Get(obj, obj_type)) ELSE Raise(s)

\* obj = func(obj_id); self._cache[obj_type][obj_id] = obj
FetchObject(s, obj_type, obj_id, obj) ==
  Unwrap(CachePut(Fetched(s, ShowMethod(obj_type), obj_id), obj_type, obj_id, obj),
         obj_type, obj)

\* Mutant: the object is looked up and fetched without the test for an
\* absent id.
ResolveUnchecked(s, obj_type, obj_id) ==
  IF obj_type \notin DOMAIN s.cache THEN Raise(s)
  ELSE IF CacheGet(s, obj_type, obj_id) = None
    THEN FetchObject(s, obj_type, obj_id, ClientShow(ShowMethod(obj_type), obj_id))
    ELSE Unwrap(s, obj_type, CacheGet(s, obj_type, obj_id))

_get_object_from_id(s, obj_type, obj_id) ==
  IF obj_id = None THEN Return(s, None)
  ELSE IF obj_type \notin DOMAIN s.cache THEN Raise(s)
  ELSE IF CacheGet(s, obj_type, obj_id) = None
    THEN FetchObject(s, obj_type, obj_id, ClientShow(ShowMethod(obj_type), obj_id))
    ELSE Unwrap(s, obj_type, CacheGet(s, obj_type, obj_id))

\* The projection of _get_from_id on the object r it resolved.
DisplayName(param_type, r) ==
  IF r.err THEN r
  ELSE IF r.val = None THEN Return(r.s, None)
  ELSE IF ~IsDict(r.val) THEN Raise(r.s)
  ELSE IF param_type = "hostgroup" THEN Return(r.s, Get(r.val, "label"))
  ELSE IF param_type = "operatingsystem"
    THEN Return(r.s, Str(Format(Get(r.val, "name")) \o "-"
                         \o Format(Get(r.val, "major"))))
  ELSE IF param_type = "environment"
    THEN IF IsStr(Get(r.val, "name"))
           THEN Return(r.s, Str(Lower(Get(r.val, "name").s)))
           ELSE Raise(r.s)
  ELSE Return(r.s, Get(r.val, "name"))

_get_from_id(s, param_type, param_id) ==
  DisplayName(param_type, _get_object_from_id(s, param_type, param_id))

_get_from_type(s, param_type, host) ==
  _get_from_id(s, param_type, Get(host, param_type \o "_id"))

\* for k in [...]: host_desc[k] = meta.get(k)
RECURSIVE CopyFields(_, _, _, _)
CopyFields(host_desc, meta, keys, suffix) ==
  IF keys = <<>> THEN host_desc
  ELSE CopyFields(Put(host_desc, Str(Head(keys)), Get(meta, Head(keys) \o suffix)),
                  meta, Tail(keys), suffix)

\* for k in [...]: host_desc[k] = self._get_from_type(k, meta)
RECURSIVE ResolveFields(_, _, _, _)
RECURSIVE ResolvedField(_, _, _, _)
ResolveFields(s, host_desc, meta, keys) ==
  IF keys = <<>> THEN Return(s, host_desc)
  ELSE ResolvedField(_get_from_type(s, Head(keys), meta), host_desc, meta, keys)

ResolvedField(r, host_desc, meta, keys) ==
  IF r.err THEN r
  ELSE ResolveFields(r.s, Put(host_desc, Str(Head(keys)), r.val), meta, Tail(keys))

\* The name at meta.get(k).get(k).get('name'), None when a level is missing.
EnvironmentName(e1) ==
  IF ~IsDict(e1) THEN None
  ELSE IF ~IsDict(Get(e1, "environment")) THEN None
  ELSE Get(Get(e1, "environment"), "name")

\* try: host_desc[k] = meta.get(k).get(k).get('name').lower()
\* except Exception: pass
EnvironmentField(host_desc, name) ==
  IF IsStr(name) THEN Put(host_desc, Str("environment"), Str(Lower(name.s)))
  ELSE host_desc

\* host_desc['ansible_ssh_host'] = host_desc['ip']
SshHost(host_desc) == Put(host_desc, Str("ansible_ssh_host"), Get(host_desc, "ip"))

\* get_host_info from host_desc['os'] on, r the resolved operating system.
HostDescOs(r, host_desc, meta) ==
  IF r.err THEN r
  ELSE Return(r.s,
              SshHost(EnvironmentField(Put(host_desc, Str("os"), r.val),
                                       EnvironmentName(Get(meta, "environment")))))

\* get_host_info from the created and updated fields on, r the host_desc
\* with the resolved names.
HostDescDates(r, meta) ==
  IF r.err THEN r
  ELSE HostDescOs(_get_from_type(r.s, "operatingsystem", meta),
                  CopyFields(r.val, meta, DateFields, "_at"), meta)

\* get_host_info after the host m was resolved.
HostDesc(m) ==
  IF m.err THEN m
  ELSE IF m.val = None THEN Return(m.s, EmptyDict)
  ELSE IF ~IsDict(m.val) THEN Raise(m.s)
  ELSE HostDescDates(ResolveFields(m.s, CopyFields(EmptyDict, m.val, PlainFields, ""),
                                   m.val, NameFields),
                     m.val)

get_host_info(s, host_id) ==
  HostDesc(_get_object_from_id([s EXCEPT !.infoCalls = Append(@, host_id)],
                               "host", host_id))

\* while True: resp = self.client.index_hosts(page=page) ...
RECURSIVE Paginate(_, _, _)
RECURSIVE Paginated(_, _, _, _)
Paginate(s, page, acc) ==
  Paginated([s EXCEPT !.calls = Append(@, <<"index_hosts", Num(page)>>)],
            page, acc, ClientIndexHosts(page))

\* Mutant: the loop ends at the first page with fewer than two entries.
PaginatedShort(s, page, acc, resp) ==
  IF Len(resp) < 2 THEN [s |-> s, hosts |-> acc]
  ELSE Paginate(s, page + 1, acc \o resp)

Paginated(s, page, acc, resp) ==
  IF Len(resp) < 1 THEN [s |-> s, hosts |-> acc]
  ELSE Paginate(s, page + 1, acc \o resp)

\* Mutant: the name is put at the front of the group's list.
PrependTo(groups, key, v) ==
  Put(groups, key,
      List(<<v>> \o (IF key \in DOMAIN groups.d THEN groups.d[key].q ELSE <<>>)))

\* groups[host_group].append(server_name), groups a defaultdict(list)
AppendTo(groups, key, v) ==
  Put(groups, key,
      List(Append(IF key \in DOMAIN groups.d THEN groups.d[key].q ELSE <<>>, v)))

\* for host in hosts: ...
RECURSIVE GroupHosts(_, _, _)
RECURSIVE GroupedHost(_, _, _, _)
GroupHosts(s, hs, groups) ==
  IF hs = <<>> THEN Return(s, groups)
  ELSE IF ~IsDict(Get(Head(hs), "host")) THEN Raise(s)
  ELSE GroupedHost(_get_from_id(s, "hostgroup",
                                Get(Get(Head(hs), "host"), "hostgroup_id")),
                   Get(Get(Head(hs), "host"), "name"), hs, groups)

GroupedHost(host_group, server_name, hs, groups) ==
  IF host_group.err THEN host_group
  ELSE GroupHosts(host_group.s, Tail(hs), AppendTo(groups, host_group.val, server_name))

\* get_inventory after the pagination p.
Grouped(p) ==
  IF Len(p.hosts) < 1 THEN Return(p.s, EmptyDict)
  ELSE GroupHosts(p.s, p.hosts, EmptyDict)

get_inventory(s) == Grouped(Paginate(s, 1, <<>>))

\* The names in the lists of groups: the keys of the dict hosts of get_all.
HostKeys(groups) ==
  UNION {{groups.d[g].q[i] : i \in DOMAIN groups.d[g].q} : g \in DOMAIN groups.d}

\* The orders in which a dict with these keys can be iterated.
Orders(keys) ==
  {q \in [1..Cardinality(keys) -> keys] :
     \A i, j \in DOMAIN q : i # j => q[i] # q[j]}

\* for host in hosts: hosts[host] = self.get_host_info(host)
RECURSIVE HostVars(_, _, _)
RECURSIVE HostVar(_, _, _)
HostVars(s, order, acc) ==
  IF order = <<>> THEN Return(s, acc)
  ELSE HostVar(get_host_info(s, Head(order)), order, acc)

HostVar(r, order, acc) ==
  IF r.err THEN r
  ELSE HostVars(r.s, Tail(order), Put(acc, Head(order), r.val))

\* Mutant: the result holds the hostvars alone.
MetaOnly(groups, h) ==
  IF h.err THEN h
  ELSE Return(h.s, Dict(Str("_meta") :> Dict(Str("hostvars") :> h.val)))

\* groups['_meta'] = {'hostvars': hosts}
WithMeta(groups, h) ==
  IF h.err THEN h
  ELSE Return(h.s, Put(groups, Str("_meta"), Dict(Str("hostvars") :> h.val)))

\* get_all after get_inventory returned g; order is the iteration order of
\* the dict hosts.
AllVars(g, order) ==
  IF g.err THEN g
  ELSE WithMeta(g.val, HostVars(g.s, order, EmptyDict))

get_all(s, order) == AllVars(get_inventory(s), order)

(***************************************************************************)
(* What Foreman holds.  Objects with id 1 exist; id 2 names no object.     *)
(***************************************************************************)
FkTypes ==
  {"model", "compute_resource", "domain", "subnet", "architecture",
   "hostgroup", "operatingsystem"}

\* The response show_<type>s gives for an object with these fields.
Response(obj_type, fields) == Dict(Str(obj_type) :> Dict(fields))

EntityFields(obj_type) ==
  CASE obj_type = "hostgroup" ->
         (Str("label") :> Str("web")) @@ (Str("name") :> Str("Web servers"))
    [] obj_type = "operatingsystem" ->
         (Str("name") :> Str("CentOS")) @@ (Str("major") :> Str("7"))
    [] obj_type = "environment" -> (Str("name") :> Str("PRODUCTION"))
    [] OTHER -> (Str("name") :> Str(obj_type \o "-1"))

Entities(types) ==
  [key \in {<<ShowMethod(t), Num(1)>> : t \in types} |->
     LET t == CHOOSE t \in types : ShowMethod(t) = key[1]
     IN Response(t, EntityFields(t))]

\* The host's environment field, present down to the given level of
\* environment.environment.name.
EnvironmentValue(level) ==
  CASE level = 1 -> EmptyDict
    [] level = 2 -> Dict(Str("environment") :> EmptyDict)
    [] OTHER -> Dict(Str("environment") :> Dict(Str("name") :> Str("PRODUCTION")))

\* A host record: fk gives the <type>_id fields (None: the field is absent).
HostRecord(name, fk, level, withIp) ==
  LET base == (Str("id") :> Num(7)) @@ (Str("name") :> Str(name))
                @@ (Str("status") :> Num(0))
                @@ (Str("created_at") :> Str("2014-01-01"))
                @@ (Str("updated_at") :> Str("2014-02-02"))
      ip == IF withIp THEN (Str("ip") :> Str("10.0.0.1")) ELSE <<>>
      env == IF level > 0 THEN (Str("environment") :> EnvironmentValue(level))
             ELSE <<>>
      ids == [k \in {Str(t \o "_id") : t \in {u \in FkTypes : fk[u] # None}} |->
                fk[CHOOSE t \in FkTypes : Str(t \o "_id") = k]]
  IN base @@ ip @@ env @@ ids

\* Every reference names an existing object, but for at most one that is
\* absent or dangling; or no reference is set at all.
FkChoices ==
  {fk \in [FkTypes -> {None, Num(1), Num(2)}] :
     \/ Cardinality({t \in FkTypes : fk[t] # Num(1)}) <= 1
     \/ \A t \in FkTypes : fk[t] = None}

AllSet == [t \in FkTypes |-> Num(1)]
NoneSet == [t \in FkTypes |-> None]

HostRecords ==
  {HostRecord("a", fk, 3, TRUE) : fk \in FkChoices}
    \cup {HostRecord("a", AllSet, level, withIp) : level \in 0..3, withIp \in BOOLEAN}

\* An entry of a page of index_hosts.
Wrapper(name, hostgroup_id) ==
  Dict(Str("host") :>
         Dict((Str("name") :> Str(name))
              @@ IF hostgroup_id = None THEN <<>>
                 ELSE (Str("hostgroup_id") :> hostgroup_id)))

NotFoundForms == {None, EmptyDict}

\* Foreman with the host "a" (or without it) and every object with id 1.
HostWorlds ==
  {[objects |-> (<<"show_hosts", Str("a")>> :> Response("host", h))
                  @@ Entities(FkTypes \cup {"environment"}),
    notFound |-> nf,
    pages |-> <<<<Wrapper("a", Get(Dict(h), "hostgroup_id"))>>>>]
     : h \in HostRecords, nf \in NotFoundForms}
  \cup
  {[objects |-> Entities(FkTypes \cup {"environment"}),
    notFound |-> nf,
    pages |-> <<>>] : nf \in NotFoundForms}

ListingRecords ==
  {Wrapper("a", None), Wrapper("a", Num(1)), Wrapper("b", Num(2))}

RECURSIVE Chunk(_, _)
Chunk(all, per_page) ==
  IF Len(all) <= per_page THEN (IF all = <<>> THEN <<>> ELSE <<all>>)
  ELSE <<SubSeq(all, 1, per_page)>> \o Chunk(SubSeq(all, per_page + 1, Len(all)), per_page)

\* The host listing cut into pages; stale: the source still answers with a
\* record two pages past the last one.
Listings ==
  {Chunk(all, per_page) \o (IF stale THEN <<<<>>, <<Wrapper("b", Num(2))>>>> ELSE <<>>)
     : all \in UNION {[1..n -> ListingRecords] : n \in 0..MaxHosts},
       per_page \in 1..MaxPerPage, stale \in BOOLEAN}

Hostgroup1 ==
  {<<>>,
   <<"show_hostgroups", Num(1)>> :> Response("hostgroup", Str("label") :> Str("web")),
   <<"show_hostgroups", Num(1)>> :> Response("hostgroup", Str("label") :> Str("_meta")),
   <<"show_hostgroups", Num(1)>> :> Response("hostgroup", Str("name") :> Str("Unlabelled"))}

InventoryWorlds ==
  {[objects |-> (<<"show_hosts", Str("a")>> :>
                   Response("host", HostRecord("a", NoneSet, 0, TRUE)))
                @@ (<<"show_hostgroups", Num(2)>> :>
                      Response("hostgroup", Str("label") :> Str("web")))
                @@ hg1,
    notFound |-> nf,
    pages |-> pages]
     : hg1 \in Hostgroup1, nf \in NotFoundForms, pages \in Listings}

HostIds == {Str("a"), Str("b")}
ObjectIds == {None, Num(1)}

(***************************************************************************)
(* The state after construction.                                           *)
(***************************************************************************)
NoOp == [name |-> "", type |-> "", arg |-> None]
NoRet == [err |-> FALSE, val |-> None]
NoArgs == [list |-> None, host |-> None, all |-> None]
NoConfig == [section |-> FALSE, options |-> <<>>]
NoFailure == [type |-> "", text |-> "", names |-> <<>>]

Fresh ==
  /\ cache = _empty_cache
  /\ fetches = <<>>
  /\ calls = <<>>
  /\ infoCalls = <<>>
  /\ hosts = <<>>
  /\ inv = None
  /\ op = NoOp
  /\ ret = NoRet
  /\ nops = 0
  /\ pc = "read_settings"
  /\ config = NoConfig
  /\ settings = <<>>
  /\ args = NoArgs
  /\ failure = NoFailure
  /\ stdout = <<>>

Init == db \in HostWorlds /\ Fresh
InitInventory == db \in InventoryWorlds /\ Fresh

(***************************************************************************)
(* The operations of a ForemanInventory instance.                          *)
(***************************************************************************)
\* The state an operation leaves: r is its result, hs the hosts it listed,
\* groups what get_inventory returned inside get_all.
Called(name, obj_type, arg, r, hs, groups) ==
  /\ cache' = r.s.cache
  /\ fetches' = r.s.fetches
  /\ calls' = r.s.calls
  /\ infoCalls' = r.s.infoCalls
  /\ hosts' = hs
  /\ inv' = groups
  /\ op' = [name |-> name, type |-> obj_type, arg |-> arg]
  /\ ret' = [err |-> r.err, val |-> r.val]
  /\ nops' = nops + 1
  /\ UNCHANGED db

GetHostInfo(host_id) ==
  /\ nops < MaxOps
  /\ Called("get_host_info", "host", host_id, get_host_info(Self, host_id), <<>>, None)
  /\ UNCHANGED cliVars

GetInventory ==
  /\ nops < MaxOps
  /\ Called("get_inventory", "", None, get_inventory(Self),
            Paginate(Self, 1, <<>>).hosts, None)
  /\ UNCHANGED cliVars

\* Mutant: get_host_info is called for every occurrence of a name in a group.
RECURSIVE Occurrences(_, _)
Occurrences(groups, keys) ==
  IF keys = {} THEN <<>>
  ELSE LET g == CHOOSE k \in keys : TRUE
       IN groups.d[g].q \o Occurrences(groups, keys \ {g})

OccurrenceOrders(g) ==
  IF g.err THEN {<<>>} ELSE {Occurrences(g.val, DOMAIN g.val.d)}

\* The iteration orders of the dict hosts that get_all builds from g.
HostOrders(g) == IF g.err THEN {<<>>} ELSE Orders(HostKeys(g.val))

GetAllOf(g) ==
  \E order \in HostOrders(g) :
    Called("get_all", "", None, AllVars(g, order), Paginate(Self, 1, <<>>).hosts, g.val)

GetAll ==
  /\ nops < MaxOps
  /\ GetAllOf(get_inventory(Self))
  /\ UNCHANGED cliVars

ResolveObject(obj_type, obj_id) ==
  /\ nops < MaxOps
  /\ Called("_get_object_from_id", obj_type, obj_id,
            _get_object_from_id(Self, obj_type, obj_id), <<>>, None)
  /\ UNCHANGED cliVars

Next ==
  \/ \E host_id \in HostIds : GetHostInfo(host_id)
  \/ GetInventory
  \/ GetAll
  \/ \E obj_type \in CacheKeys, obj_id \in ObjectIds : ResolveObject(obj_type, obj_id)

NextInventory ==
  \/ \E host_id \in HostIds : GetHostInfo(host_id)
  \/ GetInventory
  \/ GetAll

(***************************************************************************)
(* CLIMain                                                                 *)
(***************************************************************************)
\* The configuration files: without a [foreman] section, or with the
\* section and any of the required options.
ConfigFiles ==
  {NoConfig}
    \cup {[section |-> TRUE, options |-> [o \in S |-> Str(o \o "-value")]]
            : S \in SUBSET {Required[i] : i \in DOMAIN Required}}

\* config.get(section, option) of ConfigParser: the value of the option, and
\* NoSectionError or NoOptionError when the section or the option is missing.
ConfigGet(file, section, option) ==
  IF ~file.section
    THEN [raised |-> [type |-> "NoSectionError", text |-> "No section",
                      names |-> <<section>>],
          val |-> None]
  ELSE IF option \notin DOMAIN file.options
    THEN [raised |-> [type |-> "NoOptionError", text |-> "No option",
                      names |-> <<option>>],
          val |-> None]
  ELSE [raised |-> NoFailure, val |-> file.options[option]]

\* ', '.join(missing)
MissingError(missing) ==
  [type |-> "Exception", text |-> "Could not find values for Foreman",
   names |-> missing]

\* for setting in required: ...
RECURSIVE ReadRequired(_, _, _, _)
RECURSIVE ReadSetting(_, _, _, _, _)
ReadRequired(file, required, found, missing) ==
  IF required = <<>>
    THEN IF missing # <<>>
           THEN [raised |-> MissingError(missing), val |-> <<>>]
           ELSE [raised |-> NoFailure, val |-> found]
  ELSE ReadSetting(ConfigGet(file, "foreman", Head(required)), file, required,
                   found, missing)

ReadSetting(got, file, required, found, missing) ==
  IF got.raised # NoFailure THEN [raised |-> got.raised, val |-> <<>>]
  ELSE ReadRequired(file, Tail(required), (Head(required) :> got.val) @@ found,
                    IF got.val = None THEN Append(missing, Head(required))
                    ELSE missing)

read_settings(file) == ReadRequired(file, Required, <<>>, <<>>)

\* settings = self.read_settings()
ReadSettingsOf(r) ==
  /\ settings' = r.val
  /\ failure' = r.raised
  /\ pc' = IF r.raised = NoFailure THEN "parse_cli_args" ELSE "failed"

ReadSettings(file) ==
  /\ pc = "read_settings"
  /\ config' = file
  /\ ReadSettingsOf(read_settings(file))
  /\ UNCHANGED <<libVars, args, stdout>>

\* parser.parse_args(): list is given or not, it defaults to True.
parse_cli_args(list, host, all) ==
  [list |-> True, host |-> host, all |-> IF all THEN True ELSE None]

ParseCliArgs(list, host, all) ==
  /\ pc = "parse_cli_args"
  /\ args' = parse_cli_args(list, host, all)
  /\ pc' = "construct"
  /\ UNCHANGED <<libVars, config, settings, failure, stdout>>

\* foreman = ForemanInventory(...): the client is built, or the API is
\* unreachable.
Construct(reachable) ==
  /\ pc = "construct"
  /\ pc' = IF reachable THEN "dispatch" ELSE "failed"
  /\ failure' = IF reachable THEN failure
                ELSE [type |-> "Exception",
                      text |-> "It looks like Foreman's API is unreachable",
                      names |-> <<>>]
  /\ UNCHANGED <<libVars, config, settings, args, stdout>>

\* Mutant: the host flag is tested before the all flag.
ChosenHostFirst(a) ==
  IF Truthy(a.host) THEN "get_host_info"
  ELSE IF Truthy(a.all) THEN "get_all"
  ELSE IF Truthy(a.list) THEN "get_inventory"
  ELSE ""

\* if self.args.all: ... elif self.args.host: ... elif self.args.list: ...
Chosen(a) ==
  IF Truthy(a.all) THEN "get_all"
  ELSE IF Truthy(a.host) THEN "get_host_info"
  ELSE IF Truthy(a.list) THEN "get_inventory"
  ELSE ""

\* data_to_print of the chosen operation.
Run(which, a, g, order) ==
  CASE which = "get_all" -> AllVars(g, order)
    [] which = "get_host_info" -> get_host_info(Self, a.host)
    [] which = "get_inventory" -> g
    [] OTHER -> Return(Self, EmptyDict)

\* print(json.dumps(data_to_print, sort_keys=True, indent=4)): the document
\* is written to standard output, unless the operation raised.
PrintResult(r) ==
  /\ stdout' = IF r.err THEN stdout ELSE Append(stdout, r.val)
  /\ pc' = IF r.err THEN "failed" ELSE "done"
  /\ failure' = IF r.err
                  THEN [type |-> "AttributeError",
                        text |-> "object has no attribute 'get'", names |-> <<>>]
                  ELSE failure

DispatchOn(which, g) ==
  \E order \in (IF which = "get_all" THEN HostOrders(g) ELSE {<<>>}) :
    /\ Called(which, IF which = "get_host_info" THEN "host" ELSE "",
              IF which = "get_host_info" THEN args.host ELSE None,
              Run(which, args, g, order),
              IF which \in {"get_all", "get_inventory"}
                THEN Paginate(Self, 1, <<>>).hosts ELSE <<>>,
              IF which = "get_all" THEN g.val ELSE None)
    /\ PrintResult(Run(which, args, g, order))

Dispatch ==
  /\ pc = "dispatch"
  /\ DispatchOn(Chosen(args), get_inventory(Self))
  /\ UNCHANGED <<config, settings, args>>

HostArgs == HostIds \cup {Str("")}

NextCLI ==
  \/ \E file \in ConfigFiles : ReadSettings(file)
  \/ \E list \in BOOLEAN, host \in HostArgs \cup {None}, all \in BOOLEAN :
       ParseCliArgs(list, host, all)
  \/ \E reachable \in BOOLEAN : Construct(reachable)
  \/ Dispatch

Spec == Init /\ [][Next]_vars
SpecInventory == InitInventory /\ [][NextInventory]_vars
SpecCLI == Init /\ [][NextCLI]_vars

(***************************************************************************)
(* Properties                                                              *)
(***************************************************************************)
\* What Foreman answers about a host id.
HostResponse(host_id) == ClientShow("show_hosts", host_id)
HostFound(host_id) ==
  /\ host_id # None
  /\ IsDict(HostResponse(host_id))
  /\ IsDict(Get(HostResponse(host_id), "host"))
HostNotFound(host_id) == host_id # None /\ ~HostFound(host_id)
FoundHost(host_id) == Get(HostResponse(host_id), "host")

\* The client calls of the last operation to the method.
CallsTo(method_name) == {i \in DOMAIN calls : calls[i][1] = method_name}

\* C1: within one run, show_<type>s(id) is called at most once for each
\* (type, id) pair, over any sequence of operations on the instance.
FetchedAtMostOnce == \A key \in DOMAIN fetches : fetches[key] <= 1

\* A pair is fetched again only when the client answered it with no result
\* (None): that answer is stored, and reads as a cache miss afterwards.
FetchedAgainOnlyNoResult ==
  \A key \in DOMAIN fetches : fetches[key] > 1 => ClientShow(key[1], key[2]) = None

\* A call of _get_object_from_id with an absent id.
AbsentIdStep ==
  (nops' = nops + 1 /\ op'.name = "_get_object_from_id" /\ op'.arg = None)
    => /\ ret' = [err |-> FALSE, val |-> None]
       /\ calls' = <<>>
       /\ cache' = cache
       /\ fetches' = fetches

\* A host record without hostgroup_id, described by get_host_info.
AbsentHostgroup ==
  (/\ op.name = "get_host_info"
   /\ HostFound(op.arg)
   /\ Get(FoundHost(op.arg), "hostgroup_id") = None)
    => /\ CallsTo("show_hostgroups") = {}
       /\ ~ret.err => /\ Str("hostgroup") \in DOMAIN ret.val.d
                      /\ ret.val.d[Str("hostgroup")] = None

\* C7: _get_object_from_id(type, None) returns None, calls no client method
\* and leaves the cache unchanged, for every object type; get_host_info of a
\* host record without hostgroup_id does not call show_hostgroups, and the
\* hostgroup it yields is None.
AbsentIdNeverFetches == [][AbsentIdStep]_vars /\ []AbsentHostgroup

AbsentIdWitness ==
  /\ op.name = "get_host_info"
  /\ HostFound(op.arg)
  /\ Get(FoundHost(op.arg), "hostgroup_id") = None
  /\ Get(FoundHost(op.arg), "model_id") # None
  /\ ~ret.err
  /\ ret.val.d[Str("hostgroup")] = None
  /\ CallsTo("show_models") # {}

\* C8: get_host_info of a host id the API does not find returns the empty
\* mapping and raises no error, whatever form the not-found response takes.
NotFoundHostIsEmpty ==
  (op.name = "get_host_info" /\ HostNotFound(op.arg))
    => (~ret.err /\ ret.val = EmptyDict)

\* It does when the not-found response is a mapping without a host entry.
NotFoundMappingIsEmpty ==
  (op.name = "get_host_info" /\ HostNotFound(op.arg) /\ IsDict(HostResponse(op.arg)))
    => (~ret.err /\ ret.val = EmptyDict)

\* The keys get_host_info always sets.
HostDescKeys ==
  {"id", "ip", "name", "status", "model", "compute_resource", "domain", "subnet",
   "architecture", "hostgroup", "created", "updated", "os", "ansible_ssh_host"}

EnvironmentPath(host) ==
  /\ Str("environment") \in DOMAIN host.d
  /\ IsDict(host.d[Str("environment")])
  /\ Str("environment") \in DOMAIN host.d[Str("environment")].d
  /\ IsDict(host.d[Str("environment")].d[Str("environment")])
  /\ Str("name") \in DOMAIN host.d[Str("environment")].d[Str("environment")].d

HostDescShape(host, host_desc) ==
  /\ \A k \in HostDescKeys : Str(k) \in DOMAIN host_desc.d
  /\ host_desc.d[Str("ansible_ssh_host")] = Get(host, "ip")
  /\ host_desc.d[Str("ansible_ssh_host")] = host_desc.d[Str("ip")]
  /\ Str("environment") \in DOMAIN host_desc.d <=> EnvironmentPath(host)
  /\ EnvironmentPath(host) =>
       host_desc.d[Str("environment")] =
         Str(Lower(host.d[Str("environment")].d[Str("environment")].d[Str("name")].s))

\* C10: for every found host get_host_info returns, without error, a mapping
\* with the fourteen keys, ansible_ssh_host equal to ip, and the key
\* environment exactly when environment.environment.name is present on the
\* host record (then its lower-cased name); no environment is fetched.
FoundHostDescribed ==
  (op.name = "get_host_info" /\ HostFound(op.arg))
    => /\ ~ret.err
       /\ HostDescShape(FoundHost(op.arg), ret.val)
       /\ CallsTo("show_environments") = {}

\* Whenever get_host_info of a found host returns, the mapping has that shape.
ReturnedHostDescribed ==
  (op.name = "get_host_info" /\ HostFound(op.arg))
    => /\ ~ret.err => HostDescShape(FoundHost(op.arg), ret.val)
       /\ CallsTo("show_environments") = {}
       /\ ret.err => \E t \in FkTypes :
                       /\ Get(FoundHost(op.arg), t \o "_id") # None
                       /\ ClientShow(ShowMethod(t), Get(FoundHost(op.arg), t \o "_id")) = None

\* The number of non-empty pages before the first empty page of the source.
LeadingPages ==
  CHOOSE k \in 0..Len(db.pages) :
    /\ \A i \in 1..k : db.pages[i] # <<>>
    /\ k = Len(db.pages) \/ db.pages[k + 1] = <<>>

RECURSIVE Flatten(_)
Flatten(pages) == IF pages = <<>> THEN <<>> ELSE Head(pages) \o Flatten(Tail(pages))

IndexCalls == SelectSeq(calls, LAMBDA c : c[1] = "index_hosts")

\* C2: get_inventory requests the pages 1, 2, 3, ... in this order and stops
\* at the first empty page: with k non-empty pages before it, it makes
\* exactly k + 1 index_hosts calls, before any other call, and accumulates
\* the records of the pages 1..k.
PagesRequestedInOrder ==
  op.name \in {"get_inventory", "get_all"}
    => /\ IndexCalls = [i \in 1..(LeadingPages + 1) |-> <<"index_hosts", Num(i)>>]
       /\ \A i \in 1..(LeadingPages + 1) : calls[i][1] = "index_hosts"
       /\ hosts = Flatten(SubSeq(db.pages, 1, LeadingPages))

PagesWitness ==
  /\ op.name = "get_inventory"
  /\ Len(db.pages) = 3
  /\ Len(db.pages[1]) = 2
  /\ db.pages[2] = <<>>
  /\ db.pages[3] # <<>>
  /\ Len(IndexCalls) = 2
  /\ Len(hosts) = 2

\* The group of an entry of the host listing: the label of its hostgroup,
\* None without a hostgroup_id or a label.
ExpectedLabel(entry) ==
  LET id == Get(Get(entry, "host"), "hostgroup_id")
      resp == ClientShow("show_hostgroups", id)
  IN IF id = None THEN None
     ELSE IF ~IsDict(resp) THEN None
     ELSE IF ~IsDict(Get(resp, "hostgroup")) THEN None
     ELSE Get(Get(resp, "hostgroup"), "label")

NameOf(entry) == Get(Get(entry, "host"), "name")

NamesLabelled(g) ==
  LET sel == SelectSeq(hosts, LAMBDA e : ExpectedLabel(e) = g)
  IN [i \in DOMAIN sel |-> NameOf(sel[i])]

Places(groups) ==
  UNION {{<<g, i>> : i \in DOMAIN groups.d[g].q} : g \in DOMAIN groups.d}

\* C3: get_inventory puts the name of each host record into exactly one
\* list, the one keyed by the label of its hostgroup (None without a
\* hostgroup_id), in the order of the records; the lists hold as many names
\* as there are records, and the result is empty when there are no hosts.
HostsGrouped ==
  (op.name = "get_inventory" /\ ~ret.err)
    => /\ DOMAIN ret.val.d = {ExpectedLabel(hosts[i]) : i \in DOMAIN hosts}
       /\ \A g \in DOMAIN ret.val.d : ret.val.d[g] = List(NamesLabelled(g))
       /\ Cardinality(Places(ret.val)) = Len(hosts)
       /\ hosts = <<>> => ret.val = EmptyDict

HostsGroupedWitness ==
  /\ op.name = "get_inventory"
  /\ ~ret.err
  /\ Str("web") \in DOMAIN ret.val.d
  /\ ret.val.d[Str("web")] = List(<<Str("a"), Str("b")>>)

\* The host names in the lists of a grouped inventory.
GroupedNames(groups) == {groups.d[p[1]].q[p[2]] : p \in Places(groups)}

HostVarsOf(result) == Get(Get(result, "_meta"), "hostvars")

\* C4: get_all calls get_host_info exactly once for each distinct host name
\* of the grouped inventory, and _meta.hostvars has exactly one entry per
\* distinct name and no other entry.
EachHostDescribedOnce ==
  (op.name = "get_all" /\ ~ret.err)
    => /\ \A i, j \in DOMAIN infoCalls : i # j => infoCalls[i] # infoCalls[j]
       /\ {infoCalls[i] : i \in DOMAIN infoCalls} = GroupedNames(inv)
       /\ GroupedNames(inv) = {NameOf(hosts[i]) : i \in DOMAIN hosts}
       /\ DOMAIN HostVarsOf(ret.val).d = GroupedNames(inv)

EachHostDescribedOnceWitness ==
  /\ op.name = "get_all"
  /\ ~ret.err
  /\ \E g1, g2 \in DOMAIN inv.d :
       /\ g1 # g2
       /\ inv.d[g1] = List(<<Str("a")>>)
       /\ inv.d[g2] = List(<<Str("a")>>)
  /\ infoCalls = <<Str("a")>>
  /\ DOMAIN HostVarsOf(ret.val).d = {Str("a")}

\* C9 as stated: every group of the grouped inventory is in the result of
\* get_all under its key with its list unchanged, whatever its label, next
\* to _meta.hostvars, which has an entry for every host name of the group.
EveryGroupKept ==
  (op.name = "get_all" /\ ~ret.err)
    => /\ IsDict(HostVarsOf(ret.val))
       /\ \A g \in DOMAIN inv.d :
            /\ ret.val.d[g] = inv.d[g]
            /\ \A i \in DOMAIN inv.d[g].q : inv.d[g].q[i] \in DOMAIN HostVarsOf(ret.val).d

\* C9, amended: every group but one labelled _meta is in the result under
\* its key with its list unchanged; the key _meta holds hostvars alone, and
\* hostvars has an entry for every host name of every group.
OtherGroupsKept ==
  (op.name = "get_all" /\ ~ret.err)
    => /\ DOMAIN ret.val.d = DOMAIN inv.d \cup {Str("_meta")}
       /\ DOMAIN ret.val.d[Str("_meta")].d = {Str("hostvars")}
       /\ IsDict(HostVarsOf(ret.val))
       /\ \A g \in DOMAIN inv.d \ {Str("_meta")} : ret.val.d[g] = inv.d[g]
       /\ \A g \in DOMAIN inv.d :
            \A i \in DOMAIN inv.d[g].q : inv.d[g].q[i] \in DOMAIN HostVarsOf(ret.val).d

OtherGroupsKeptWitness ==
  /\ op.name = "get_all"
  /\ ~ret.err
  /\ Str("_meta") \in DOMAIN inv.d
  /\ Str("web") \in DOMAIN inv.d
  /\ ret.val.d[Str("web")] = inv.d[Str("web")]
  /\ ret.val.d[Str("_meta")] # inv.d[Str("_meta")]

\* The required settings the configuration file does not set.
Absent(setting) == ~config.section \/ setting \notin DOMAIN config.options
AbsentSettings == SelectSeq(Required, LAMBDA setting : Absent(setting))

\* C5: with a required setting absent, read_settings fails with the error
\* "Could not find values for Foreman ..." naming every absent setting, and
\* no inventory operation is run.
AbsentSettingsReported ==
  (pc # "read_settings" /\ AbsentSettings # <<>>)
    => /\ pc = "failed"
       /\ failure = MissingError(AbsentSettings)
       /\ nops = 0
       /\ stdout = <<>>

\* What the code does: the entry point ends with the error of the
\* configuration parser about the first absent setting, and runs nothing.
FirstAbsentSettingRaised ==
  (pc # "read_settings" /\ AbsentSettings # <<>>)
    => /\ pc = "failed"
       /\ failure.type \in {"NoSectionError", "NoOptionError"}
       /\ failure.names = IF config.section THEN <<Head(AbsentSettings)>>
                          ELSE <<"foreman">>
       /\ nops = 0
       /\ stdout = <<>>

Dispatched == nops = 1

\* C6 as stated: exactly one operation runs, get_all when --all is given,
\* else get_host_info(id) when --host is given, else get_inventory when list
\* is set, else the empty mapping; its result is printed exactly once.
FlagsOrdered ==
  /\ nops <= 1
  /\ Len(stdout) <= 1
  /\ Dispatched =>
       /\ op.name = IF args.all = True THEN "get_all"
                    ELSE IF args.host # None THEN "get_host_info"
                    ELSE IF args.list = True THEN "get_inventory"
                    ELSE ""
       /\ op.name = "get_host_info" => op.arg = args.host
       /\ pc = "done" => stdout = <<ret.val>>

\* C6, amended: --host counts as given only with a non-empty id.
FlagsOrderedNonEmptyHost ==
  /\ nops <= 1
  /\ Len(stdout) <= 1
  /\ pc \in {"construct", "dispatch", "done"} => args.list = True
  /\ Dispatched =>
       /\ pc \in {"done", "failed"}
       /\ op.name = IF args.all = True THEN "get_all"
                    ELSE IF args.host \notin {None, Str("")} THEN "get_host_info"
                    ELSE IF args.list = True THEN "get_inventory"
                    ELSE ""
       /\ op.name = "get_host_info" => op.arg = args.host
       /\ pc = "done" <=> ~ret.err
       /\ pc = "done" => stdout = <<ret.val>>
       /\ pc = "failed" => stdout = <<>>

FlagsOrderedWitness ==
  /\ pc = "done"
  /\ args.all = True
  /\ args.host = Str("a")
  /\ op.name = "get_all"
  /\ stdout = <<ret.val>>

====
